---- MODULE Spec2Model ----
(***************************************************************************)
(* A model of duck's chunk splitting (src/compiler.ts) and of the chunk    *)
(* compile cache of the dev server (src/commands/serve.ts).                *)
(*                                                                         *)
(* Two specifications share the module:                                    *)
(*   SplitSpec  the pipeline of createCompilerOptionsForChunks applied to  *)
(*              every chunk declaration and dependency graph within the    *)
(*              bounds;                                                    *)
(*   Spec       the HTTP handlers of `duck serve` for chunked entries,     *)
(*              interleaved at their await points, and the eviction        *)
(*              clearEntryIdToChunkCache.                                  *)
(*                                                                         *)
(* JavaScript Sets and Maps keep insertion order; they are modelled as     *)
(* duplicate-free sequences and as [keys, get] records.                    *)
(***************************************************************************)
EXTENDS Integers, Sequences, FiniteSets, TLC

\* ------------------------------------------------------------------ bounds

\* Number of chunks declared by a generated entry config (SplitSpec).
MaxChunks == 3

\* Number of files of a generated dependency graph (SplitSpec).
MaxFiles == 3

\* Number of HTTP requests the server receives (Spec).
MaxRequests == 3

\* Number of runs of createCompilerOptionsForChunks on one input (TwiceSpec).
MaxRuns == 2

\* ------------------------------------------------------------------ values

ChunkNames == <<"app", "a", "b", "c", "d", "e", "f", "g">>

PathNames == <<"x.js", "y.js", "z.js", "w.js", "v.js", "u.js", "t.js", "s.js">>

\* The `undefined` of a missing query parameter, and the empty string: both
\* are falsy in `requestedChunkId && parentRequest` and in `a || b`.
Absent == ""

Range(s) == {s[i] : i \in 1..Len(s)}

IndexOf(s, x) == CHOOSE i \in 1..Len(s) : s[i] = x

Min(S) == CHOOSE x \in S : \A y \in S : x <= y

Max(S) == CHOOSE x \in S : \A y \in S : y <= x

\* Set.prototype.add on an insertion-ordered Set: the first insertion wins.
SetAdd(s, x) == IF x \in Range(s) THEN s ELSE Append(s, x)

\* new Set(array)
RECURSIVE NewSet(_)
NewSet(arr) ==
  IF arr = <<>> THEN <<>>
  ELSE SetAdd(NewSet(SubSeq(arr, 1, Len(arr) - 1)), arr[Len(arr)])

\* flat(arrays): the concatenation of a sequence of sequences.
RECURSIVE flat(_)
flat(arrs) == IF arrs = <<>> THEN <<>> ELSE Head(arrs) \o flat(Tail(arrs))

\* ------------------------------------------------------------ the chunk DAG
\* An entry config's `modules` is [order, inputs, deps]: the chunk ids in
\* declaration order, each chunk's input paths and its parent chunk ids.

AncStep(modules, S) == S \cup UNION {modules.deps[c] : c \in S}

RECURSIVE AncClose(_, _, _)
AncClose(modules, S, n) ==
  IF n = 0 THEN S ELSE AncClose(modules, AncStep(modules, S), n - 1)

\* The chunk itself and every chunk it reaches through declared parents.
AncestorsOrSelf(modules, c) == AncClose(modules, {c}, Len(modules.order) - 1)

IsCyclic(modules) ==
  \E c \in Range(modules.order) :
    c \in AncClose(modules, modules.deps[c], Len(modules.order))

\* The topological depth of a chunk: the longest parent path to a root.
RECURSIVE Depth(_, _)
Depth(modules, c) ==
  IF modules.deps[c] = {} THEN 0
  ELSE 1 + Max({Depth(modules, p) : p \in modules.deps[c]})

\* createDag(entryConfig): the DAG of the declared chunks with its derived
\* ancestor closures and depths, or CycleError.
createDag(modules) ==
  IF IsCyclic(modules)
  THEN [error |-> "CycleError", order |-> modules.order, deps |-> modules.deps,
        closure |-> <<>>, depth |-> <<>>]
  ELSE [error |-> "", order |-> modules.order, deps |-> modules.deps,
        closure |-> [c \in Range(modules.order) |-> AncestorsOrSelf(modules, c)],
        depth |-> [c \in Range(modules.order) |-> Depth(modules, c)]]

\* Dag.getSortedIds(): parents first; among the chunks whose parents are all
\* placed, the one declared first comes next.
RECURSIVE SortFrom(_, _)
SortFrom(dag, done) ==
  IF Len(done) = Len(dag.order) THEN done
  ELSE LET ready == {i \in 1..Len(dag.order) :
                       /\ dag.order[i] \notin Range(done)
                       /\ dag.deps[dag.order[i]] \subseteq Range(done)}
       IN SortFrom(dag, Append(done, dag.order[Min(ready)]))

getSortedIds(dag) == SortFrom(dag, <<>>)

NoNode == "undefined"

\* A getLcaNode that answers with the shallowest common ancestor.
getLcaNode_Shallowest(dag, ids) ==
  LET common == {c \in Range(dag.order) :
                   \A i \in 1..Len(ids) : c \in dag.closure[ids[i]]}
  IN IF common = {} THEN NoNode
     ELSE CHOOSE c \in common : \A d \in common : dag.depth[c] <= dag.depth[d]

\* Dag.getLcaNode(...ids): intersect the ancestor closures of the ids, keep
\* the deepest; among equally deep ones the latest in getSortedIds() order.
getLcaNode(dag, ids) ==
  LET common == {c \in Range(dag.order) :
                   \A i \in 1..Len(ids) : c \in dag.closure[ids[i]]}
      deepest == {c \in common : \A d \in common : dag.depth[d] <= dag.depth[c]}
  IN IF common = {} THEN NoNode
     ELSE IF Cardinality(deepest) = 1 THEN CHOOSE c \in deepest : TRUE
     ELSE LET sorted == getSortedIds(dag)
          IN CHOOSE c \in deepest :
               \A d \in deepest : IndexOf(sorted, d) <= IndexOf(sorted, c)

\* ------------------------------------------------- the dependency graph
\* `dependencies` is [paths, imports]: the parsed files in list order and,
\* for each, the paths its requires resolve to, in import order.

\* depGraph.Graph.order(...entryPoints): depth-first, a file after the files
\* it imports, every file once.
RECURSIVE Visit(_, _, _)
RECURSIVE VisitAll(_, _, _)
Visit_PreOrder(graph, dep, st) ==
  IF dep \in st.visited THEN st
  ELSE VisitAll(graph, graph.imports[dep],
                [visited |-> st.visited \cup {dep}, deps |-> Append(st.deps, dep)])

Visit(graph, dep, st) ==
  IF dep \in st.visited THEN st
  ELSE LET st1 == [st EXCEPT !.visited = @ \cup {dep}]
           st2 == VisitAll(graph, graph.imports[dep], st1)
       IN [st2 EXCEPT !.deps = Append(@, dep)]

VisitAll(graph, deps, st) ==
  IF deps = <<>> THEN st
  ELSE VisitAll(graph, Tail(deps), Visit(graph, Head(deps), st))

GraphOrder(graph, entryPoints) ==
  VisitAll(graph, entryPoints, [visited |-> {}, deps |-> <<>>]).deps

\* ------------------------------------------------------ splitting engine

\* findTransitiveDeps: chunk id -> Set of the paths the chunk needs, keyed in
\* sortedChunkIds order; an input that is not a parsed file makes
\* assertNonNullable throw.
findTransitiveDeps(sortedChunkIds, dependencies, modules) ==
  IF \E c \in Range(sortedChunkIds) :
       \E i \in 1..Len(modules.inputs[c]) :
         modules.inputs[c][i] \notin Range(dependencies.paths)
  THEN [error |-> "AssertionError", keys |-> <<>>, get |-> <<>>]
  ELSE [error |-> "",
        keys  |-> sortedChunkIds,
        get   |-> [c \in Range(sortedChunkIds) |->
                     NewSet(GraphOrder(dependencies, modules.inputs[c]))]]

\* Lines 350-355: the chunks whose transitive set has the path, in Map order.
chunkIdsWithDep_FirstOnly(chunkToTransitiveDepPathSet, targetDepPath) ==
  LET all == SelectSeq(chunkToTransitiveDepPathSet.keys,
               LAMBDA chunkId :
                 targetDepPath \in Range(chunkToTransitiveDepPathSet.get[chunkId]))
  IN SubSeq(all, 1, 1)

chunkIdsWithDep(chunkToTransitiveDepPathSet, targetDepPath) ==
  SelectSeq(chunkToTransitiveDepPathSet.keys,
    LAMBDA chunkId :
      \E i \in 1..Len(chunkToTransitiveDepPathSet.get[chunkId]) :
        chunkToTransitiveDepPathSet.get[chunkId][i] = targetDepPath)

\* Line 356: the chunk a path is placed in.
targetChunk_Root(dag, chunkToTransitiveDepPathSet, targetDepPath) ==
  getLcaNode(dag, chunkToTransitiveDepPathSet.keys)

targetChunk(dag, chunkToTransitiveDepPathSet, targetDepPath) ==
  getLcaNode(dag, chunkIdsWithDep(chunkToTransitiveDepPathSet, targetDepPath))

\* Lines 349-357, one turn of the inner loop: `chunk` is the chunk whose
\* transitive set is being walked, `acc` the chunkToInputPathSet so far.
\* A getLcaNode that finds no node makes `targetChunk.id` throw.
placeDep_IntoWalkedChunk(acc, dag, chunkToTransitiveDepPathSet, chunk, targetDepPath) ==
  IF acc.error # "" THEN acc
  ELSE [acc EXCEPT !.get[chunk] = SetAdd(@, targetDepPath)]

placeDep(acc, dag, chunkToTransitiveDepPathSet, chunk, targetDepPath) ==
  IF acc.error # "" THEN acc
  ELSE LET target == targetChunk(dag, chunkToTransitiveDepPathSet, targetDepPath)
       IN IF target = NoNode THEN [error |-> "TypeError", keys |-> <<>>, get |-> <<>>]
          ELSE [acc EXCEPT !.get[target] = SetAdd(@, targetDepPath)]

\* The walk of lines 348-349: every (chunk, path) in Map and Set order.
RECURSIVE WalkOrder(_, _)
WalkOrder(chunkToTransitiveDepPathSet, keys) ==
  IF keys = <<>> THEN <<>>
  ELSE [i \in 1..Len(chunkToTransitiveDepPathSet.get[Head(keys)]) |->
          <<Head(keys), chunkToTransitiveDepPathSet.get[Head(keys)][i]>>]
       \o WalkOrder(chunkToTransitiveDepPathSet, Tail(keys))

RECURSIVE SplitLoop(_, _, _, _)
SplitLoop(work, acc, dag, chunkToTransitiveDepPathSet) ==
  IF work = <<>> THEN acc
  ELSE SplitLoop(Tail(work),
                 placeDep(acc, dag, chunkToTransitiveDepPathSet,
                          Head(work)[1], Head(work)[2]),
                 dag, chunkToTransitiveDepPathSet)

\* splitDepsIntoChunks: chunk id -> Set of the paths compiled into the chunk.
splitDepsIntoChunks(sortedChunkIds, chunkToTransitiveDepPathSet, dag) ==
  SplitLoop(WalkOrder(chunkToTransitiveDepPathSet, chunkToTransitiveDepPathSet.keys),
            [error |-> "",
             keys  |-> sortedChunkIds,
             get   |-> [c \in Range(sortedChunkIds) |-> <<>>]],
            dag, chunkToTransitiveDepPathSet)

\* ------------------------------------------ compiler options and compiler

\* [...map.values()]: the values of a Map in key order.
MapValues(m) == [i \in 1..Len(m.keys) |-> m.get[m.keys[i]]]

NoOptions == [js |-> <<>>, chunk |-> <<>>]

\* Chunk flags that count the declared inputs of a chunk.
chunkFlags_DeclaredInputs(ids, chunkToInputPathSet, modules) ==
  [i \in 1..Len(ids) |->
     [id |-> ids[i], numOfInputs |-> Len(modules.inputs[ids[i]]),
      deps |-> modules.deps[ids[i]]]]

\* The chunk flags `id:numOfInputs:deps` of the chunks, in the order of the
\* sorted chunk ids.
RECURSIVE chunkFlags(_, _, _)
chunkFlags(ids, chunkToInputPathSet, modules) ==
  IF ids = <<>> THEN <<>>
  ELSE <<[id |-> Head(ids),
          numOfInputs |-> Len(chunkToInputPathSet.get[Head(ids)]),
          deps |-> modules.deps[Head(ids)]]>>
       \o chunkFlags(Tail(ids), chunkToInputPathSet, modules)

\* Line 259: the root chunk is the first of the sorted chunk ids.
rootChunkIdOf_Last(sortedIds) == sortedIds[Len(sortedIds)]

rootChunkIdOf(sortedIds) == sortedIds[1]

\* Lines 247-252: options.js and options.chunk from the placement.
createOptions(sortedIds, inputPathSet, given) ==
  [js |-> flat(MapValues(inputPathSet)),
   chunk |-> chunkFlags(sortedIds, inputPathSet, given)]

\* createCompilerOptionsForChunks, lines 243-259: the options hold the files
\* of all chunks in chunk order (js) and one chunk flag `id:numOfInputs:deps`
\* per chunk.
createCompilerOptionsForChunks(modules, dependencies) ==
  LET dag == createDag(modules)
      sortedChunkIds == getSortedIds(dag)
      chunkToTransitiveDepPathSet == findTransitiveDeps(sortedChunkIds, dependencies, modules)
      chunkToInputPathSet == splitDepsIntoChunks(sortedChunkIds, chunkToTransitiveDepPathSet, dag)
      Thrown(e) == [error |-> e, options |-> NoOptions,
                    sortedChunkIds |-> <<>>, rootChunkId |-> NoNode]
  IN IF dag.error # "" THEN Thrown(dag.error)
     ELSE IF chunkToTransitiveDepPathSet.error # "" THEN Thrown(chunkToTransitiveDepPathSet.error)
     ELSE IF chunkToInputPathSet.error # "" THEN Thrown(chunkToInputPathSet.error)
     ELSE [error |-> "",
           options |-> createOptions(sortedChunkIds, chunkToInputPathSet, modules),
           sortedChunkIds |-> sortedChunkIds,
           rootChunkId |-> rootChunkIdOf(sortedChunkIds)]

\* What one run of the Closure Compiler writes for the chunk flags it is
\* given: one output per flag, in flag order. `build` names the run, so the
\* outputs of two runs differ.
CompilerOutputs(options, build) ==
  [i \in 1..Len(options.chunk) |->
     [path |-> options.chunk[i].id, src |-> <<options.chunk[i].id, build>>]]

\* The ways a run can end: (exitCode, stderr, stdout). A run that exits with
\* 0 has written the JSON of its outputs, with or without warnings on stderr;
\* a run that exits with another code has written no JSON, with or without
\* errors on stderr.
CompilerRuns(options, build) ==
  {[exitCode |-> 0, stderr |-> "", json |-> TRUE, stdout |-> CompilerOutputs(options, build)],
   [exitCode |-> 0, stderr |-> "WARNING", json |-> TRUE, stdout |-> CompilerOutputs(options, build)],
   [exitCode |-> 1, stderr |-> "ERROR", json |-> FALSE, stdout |-> <<>>],
   [exitCode |-> 1, stderr |-> "", json |-> FALSE, stdout |-> <<>>]}

\* compile(), lines 198-205: rejects with CompilerError when the run wrote
\* to stderr, and resolves with stdout otherwise.
compile(run) ==
  IF run.stderr # ""
  THEN [error |-> "CompilerError", exitCode |-> run.exitCode, json |-> FALSE, stdout |-> <<>>]
  ELSE [error |-> "", exitCode |-> run.exitCode, json |-> run.json, stdout |-> run.stdout]

\* compileToJson, lines 183-186: JSON.parse of what compile() resolves with.
compileToJson(run) ==
  LET out == compile(run)
  IN IF out.error # "" THEN [error |-> out.error, exitCode |-> out.exitCode, outputs |-> <<>>]
     ELSE IF ~out.json THEN [error |-> "SyntaxError", exitCode |-> out.exitCode, outputs |-> <<>>]
     ELSE [error |-> "", exitCode |-> out.exitCode, outputs |-> out.stdout]

\* --------------------------------------------------------- the dev server

EntryIds == {"main", "other"}

\* The entry configs of the served directory and what getDependencies parses
\* for them: `main` is the root app with the chunks a and b, `other` the root
\* app with the chunk c, `raw` an entry in RAW mode whose chunks are declared
\* in another order than their parents require. Two entry configs are broken: in `cyclic` the chunks
\* a and b declare each other as deps (and the input of b is not a parsed
\* file either), in `missing` the input of the chunk c is not a parsed file.
EntryModules(id) ==
  IF id = "main"
  THEN [order |-> <<"app", "a", "b">>,
        inputs |-> [c \in {"app", "a", "b"} |->
                      IF c = "app" THEN <<"x.js">> ELSE IF c = "a" THEN <<"y.js">> ELSE <<"z.js">>],
        deps |-> [c \in {"app", "a", "b"} |-> IF c = "app" THEN {} ELSE {"app"}]]
  ELSE IF id = "cyclic"
  THEN [order |-> <<"a", "b">>,
        inputs |-> [c \in {"a", "b"} |-> IF c = "a" THEN <<"x.js">> ELSE <<"v.js">>],
        deps |-> [c \in {"a", "b"} |-> IF c = "a" THEN {"b"} ELSE {"a"}]]
  ELSE IF id = "raw"
  THEN [order |-> <<"b", "app", "a">>,
        inputs |-> [c \in {"app", "a", "b"} |->
                      IF c = "app" THEN <<"x.js", "w.js">>
                      ELSE IF c = "a" THEN <<"y.js">> ELSE <<"z.js">>],
        deps |-> [c \in {"app", "a", "b"} |->
                    IF c = "app" THEN {} ELSE IF c = "a" THEN {"app", "b"} ELSE {"app"}]]
  ELSE IF id = "missing"
  THEN [order |-> <<"app", "c">>,
        inputs |-> [c \in {"app", "c"} |-> IF c = "app" THEN <<"x.js">> ELSE <<"v.js">>],
        deps |-> [c \in {"app", "c"} |-> IF c = "app" THEN {} ELSE {"app"}]]
  ELSE [order |-> <<"app", "c">>,
        inputs |-> [c \in {"app", "c"} |-> IF c = "app" THEN <<"x.js">> ELSE <<"y.js">>],
        deps |-> [c \in {"app", "c"} |-> IF c = "app" THEN {} ELSE {"app"}]]

EntryDependencies(id) ==
  [paths |-> <<"x.js", "y.js", "z.js", "w.js">>,
   imports |-> [p \in {"x.js", "y.js", "z.js", "w.js"} |->
                  IF p = "y.js" THEN <<"x.js", "w.js">>
                  ELSE IF p = "z.js" THEN <<"w.js">>
                  ELSE <<>>]]

\* entryConfig.mode
EntryMode(id) == IF id = "raw" THEN "RAW" ELSE "SIMPLE"

ChunkIdsOf(id) == Range(EntryModules(id).order)

\* String(request.id): fastify numbers the requests 1, 2, 3, ...
Digits == <<"1", "2", "3", "4", "5", "6", "7", "8", "9">>

String(n) == Digits[n]

\* A Map as a function on its keys.
EmptyMap == [k \in {} |-> <<>>]

MapHas(m, k) == k \in DOMAIN m

MapSet(m, k, v) == [x \in DOMAIN m \cup {k} |-> IF x = k THEN v ELSE m[x]]

NoAddress == 0

\* ------------------------------------------------------------------ state

VARIABLES
  \* createCompilerOptionsForChunks, as run by SplitSpec
  modules,                      \* entryConfig.modules
  dependencies,                 \* the parsed dependency graph
  splitPc,                      \* the line the pipeline has reached
  dag,
  sortedChunkIds,
  chunkToTransitiveDepPathSet,
  chunkToInputPathSet,
  \* serve.ts
  entryIdToChunkCache,          \* entry id -> address of its Map, or NoAddress
  chunkCaches,                  \* address -> Map: requestId -> chunk id -> output
  requests,                     \* the requests received, by request.id
  event,                        \* what the last step did, for the properties
  createdOptions,               \* entry id -> what createCompilerOptionsForChunks
                                \* returns for the entry
  \* createCompilerOptionsForChunks, as run by TwiceSpec
  created,                      \* what the runs so far returned
  \* the Dag, as used by DagSpec
  lca,                          \* the last getLcaNode call: its ids and its result
  \* the browser of BrowserSpec
  browser,                      \* what one module loader has requested and received
  \* gendeps.ts, as run by GendepsSpec
  dependenciesCache,            \* entry id -> the Dependency list getDependencies cached
  depFileTextCache,             \* entry id -> the deps.js text generateDepFileText cached
  sourceVersion,                \* the revision of the source files on disk
  parsing,                      \* the parse runs getDependencies started, by number
  called                        \* what the gendeps call of the last step did

splitVars == <<modules, dependencies, splitPc, dag, sortedChunkIds,
               chunkToTransitiveDepPathSet, chunkToInputPathSet>>

serverVars == <<entryIdToChunkCache, chunkCaches, requests, event, createdOptions>>

twiceVars == <<created>>

dagVars == <<lca>>

browserVars == <<browser>>

gendepsVars == <<dependenciesCache, depFileTextCache, sourceVersion, parsing, called>>

vars == <<splitVars, serverVars, twiceVars, dagVars, browserVars, gendepsVars>>

\* ------------------------------------------------- SplitSpec: the inputs

GenChunkIds == SubSeq(ChunkNames, 1, MaxChunks)

GenPaths == SubSeq(PathNames, 1, MaxFiles)

\* A set of sequence elements as the subsequence of `s` holding them.
Among(s, S) == SelectSeq(s, LAMBDA x : x \in S)

\* Chunk declarations with one root: every chunk but the first declares at
\* least one parent among the chunks declared before it, and one input file.
GenModules ==
  {[order |-> GenChunkIds, inputs |-> inp, deps |-> d] :
     inp \in [Range(GenChunkIds) -> {<<p>> : p \in Range(GenPaths)}],
     d \in {f \in [Range(GenChunkIds) -> SUBSET Range(GenChunkIds)] :
              \A i \in 1..MaxChunks :
                /\ f[GenChunkIds[i]] \subseteq {GenChunkIds[j] : j \in 1..(i - 1)}
                /\ i > 1 => f[GenChunkIds[i]] # {}}}

\* Acyclic dependency graphs: a file requires files listed before it.
GenDependencies ==
  {[paths |-> GenPaths, imports |-> [p \in Range(GenPaths) |-> Among(GenPaths, r[p])]] :
     r \in {f \in [Range(GenPaths) -> SUBSET Range(GenPaths)] :
              \A i \in 1..MaxFiles :
                f[GenPaths[i]] \subseteq {GenPaths[j] : j \in 1..(i - 1)}}}

NoMap == [error |-> "", keys |-> <<>>, get |-> <<>>]

NoBrowser == [pc |-> "idle"]

NoCall == [op |-> "none"]

NoLca == [ids |-> <<>>, node |-> NoNode]

NoDag == [error |-> "", order |-> <<>>, deps |-> <<>>, closure |-> <<>>, depth |-> <<>>]

SplitInit ==
  /\ modules \in GenModules
  /\ dependencies \in GenDependencies
  /\ splitPc = "start"
  /\ dag = NoDag
  /\ sortedChunkIds = <<>>
  /\ chunkToTransitiveDepPathSet = NoMap
  /\ chunkToInputPathSet = NoMap
  /\ entryIdToChunkCache = [id \in EntryIds |-> NoAddress]
  /\ chunkCaches = [a \in 1..MaxRequests |-> EmptyMap]
  /\ requests = <<>>
  /\ event = [type |-> "none"]
  /\ createdOptions = <<>>
  /\ created = <<>>
  /\ lca = NoLca
  /\ browser = NoBrowser
  /\ dependenciesCache = EmptyMap
  /\ depFileTextCache = EmptyMap
  /\ sourceVersion = 0
  /\ parsing = <<>>
  /\ called = NoCall

\* compiler.ts lines 243-244
SortChunks ==
  /\ splitPc = "start"
  /\ dag' = createDag(modules)
  /\ IF dag'.error # ""
     THEN splitPc' = "failed" /\ sortedChunkIds' = sortedChunkIds
     ELSE splitPc' = "sorted" /\ sortedChunkIds' = getSortedIds(dag')
  /\ UNCHANGED <<modules, dependencies, chunkToTransitiveDepPathSet, chunkToInputPathSet>>
  /\ UNCHANGED <<serverVars, twiceVars, dagVars, browserVars, gendepsVars>>

\* compiler.ts line 245
FindTransitiveDeps ==
  /\ splitPc = "sorted"
  /\ chunkToTransitiveDepPathSet' = findTransitiveDeps(sortedChunkIds, dependencies, modules)
  /\ splitPc' = IF chunkToTransitiveDepPathSet'.error # "" THEN "failed" ELSE "transitive"
  /\ UNCHANGED <<modules, dependencies, dag, sortedChunkIds, chunkToInputPathSet>>
  /\ UNCHANGED <<serverVars, twiceVars, dagVars, browserVars, gendepsVars>>

\* compiler.ts line 246
SplitDepsIntoChunks ==
  /\ splitPc = "transitive"
  /\ chunkToInputPathSet' =
       splitDepsIntoChunks(sortedChunkIds, chunkToTransitiveDepPathSet, dag)
  /\ splitPc' = IF chunkToInputPathSet'.error # "" THEN "failed" ELSE "split"
  /\ UNCHANGED <<modules, dependencies, dag, sortedChunkIds, chunkToTransitiveDepPathSet>>
  /\ UNCHANGED <<serverVars, twiceVars, dagVars, browserVars, gendepsVars>>

\* compiler.ts lines 247-259
CreateOptions ==
  /\ splitPc = "split"
  /\ created' = <<[error |-> "",
                   options |-> createOptions(sortedChunkIds, chunkToInputPathSet, modules),
                   sortedChunkIds |-> sortedChunkIds,
                   rootChunkId |-> rootChunkIdOf(sortedChunkIds)]>>
  /\ splitPc' = "options"
  /\ UNCHANGED <<modules, dependencies, dag, sortedChunkIds,
                 chunkToTransitiveDepPathSet, chunkToInputPathSet>>
  /\ UNCHANGED <<serverVars, dagVars, browserVars, gendepsVars>>

SplitNext == SortChunks \/ FindTransitiveDeps \/ SplitDepsIntoChunks \/ CreateOptions

SplitSpec == SplitInit /\ [][SplitNext]_vars

\* ------------------------------------------- splitting engine: the claims

\* The chunks whose transitive set holds the path.
RequiringChunks(p) ==
  {c \in Range(modules.order) : p \in Range(chunkToTransitiveDepPathSet.get[c])}

\* The chunks whose output list holds the path.
PlacedIn(p) ==
  {c \in Range(modules.order) : p \in Range(chunkToInputPathSet.get[c])}

\* How often the path occurs in the output list of chunk c.
Occurrences(c, p) ==
  Cardinality({i \in 1..Len(chunkToInputPathSet.get[c]) :
                 chunkToInputPathSet.get[c][i] = p})

\* x is a strict ancestor of y: y declares x as a parent, or declares a
\* parent that x is a strict ancestor of.
RECURSIVE IsStrictAncestor(_, _)
IsStrictAncestor(x, y) ==
  \/ x \in modules.deps[y]
  \/ \E p \in modules.deps[y] : IsStrictAncestor(x, p)

IsAncestorOrSelf(x, y) == x = y \/ IsStrictAncestor(x, y)

\* C8: the placement is a partition of the paths of the transitive sets:
\* a path of some chunk's transitive set is in the output list of exactly
\* one chunk, once; a path of no transitive set is in no output list.
C8_Partition ==
  splitPc = "split" =>
    \A p \in Range(PathNames) :
      IF RequiringChunks(p) # {}
      THEN /\ Cardinality(PlacedIn(p)) = 1
           /\ \A c \in PlacedIn(p) : Occurrences(c, p) = 1
      ELSE PlacedIn(p) = {}

\* Two chunks share a path, and the paths are spread over several chunks.
C8_Witness ==
  /\ splitPc = "split"
  /\ \E p \in Range(PathNames) : Cardinality(RequiringChunks(p)) >= 2
  /\ Cardinality({c \in Range(modules.order) : chunkToInputPathSet.get[c] # <<>>}) >= 2

\* C9: a file is placed in a chunk that is, for every chunk R needing the
\* file, R itself or an ancestor of R.
C9_PlacedInAncestorOrSelf ==
  splitPc = "split" =>
    \A p \in Range(PathNames) :
      \A c \in PlacedIn(p) :
        \A r \in RequiringChunks(p) : IsAncestorOrSelf(c, r)

\* A file is placed in a chunk other than one that needs it.
C9_Witness ==
  /\ splitPc = "split"
  /\ \E p \in Range(PathNames) :
       \E c \in PlacedIn(p) : \E r \in RequiringChunks(p) : c # r

\* C10: a file is placed in the lowest common ancestor of the chunks that
\* need it: the chunk is a common ancestor-or-self of them and no strict
\* descendant of it is; a file needed by one chunk is placed in that chunk;
\* a file needed by exactly two chunks that both declare one same parent,
\* and nothing else, is placed in that parent, once, and in neither of the
\* two.
C10_PlacedInLca ==
  splitPc = "split" =>
    \A p \in Range(PathNames) :
      LET req == RequiringChunks(p) IN
      req # {} =>
        /\ \A c \in PlacedIn(p) :
             /\ \A r \in req : IsAncestorOrSelf(c, r)
             /\ ~ \E d \in Range(modules.order) :
                    /\ IsStrictAncestor(c, d)
                    /\ \A r \in req : IsAncestorOrSelf(d, r)
        /\ \A c \in Range(modules.order) : req = {c} => PlacedIn(p) = {c}
        /\ \A a, b, app \in Range(modules.order) :
             (/\ a # b
              /\ req = {a, b}
              /\ modules.deps[a] = {app}
              /\ modules.deps[b] = {app})
             => /\ PlacedIn(p) = {app}
                /\ Occurrences(app, p) = 1
                /\ Occurrences(a, p) = 0
                /\ Occurrences(b, p) = 0

\* Scenario A: a file needed only by the siblings a and b of the root app,
\* and a file needed by one chunk only.
C10_Witness ==
  /\ splitPc = "split"
  /\ modules.deps["a"] = {"app"}
  /\ modules.deps["b"] = {"app"}
  /\ \E p \in Range(PathNames) :
       RequiringChunks(p) = {"a", "b"} /\ PlacedIn(p) = {"app"}
  /\ \E p \in Range(PathNames) : \E c \in Range(modules.order) :
       RequiringChunks(p) = {c} /\ PlacedIn(p) = {c}

\* C11: in the output list of every chunk, every direct dependency of a file
\* that is in the same list stands before the file.
C11_DepsPrecede ==
  splitPc = "split" =>
    \A c \in Range(modules.order) :
      LET list == chunkToInputPathSet.get[c] IN
      \A i \in 1..Len(list) :
        \A k \in 1..Len(dependencies.imports[list[i]]) :
          LET g == dependencies.imports[list[i]][k] IN
          g \in Range(list) => IndexOf(list, g) < i

\* A chunk other than the one being walked first got a file and one of its
\* direct dependencies: both are needed by two chunks and stand in their
\* common ancestor, the dependency first.
C11_Witness ==
  /\ splitPc = "split"
  /\ \E c \in Range(modules.order) :
       LET list == chunkToInputPathSet.get[c] IN
       \E i, j \in 1..Len(list) :
         /\ j < i
         /\ list[j] \in Range(dependencies.imports[list[i]])
         /\ Cardinality(RequiringChunks(list[i])) >= 2
         /\ c \notin RequiringChunks(list[i])

\* ------------------------------------------------------ DagSpec: the Dag

\* Chunk declarations of every shape: each chunk declares any set of the
\* other chunks as its parents, so there are declarations with several
\* roots, with parents declared after their children, and with cycles.
GenDagModules ==
  {[order |-> GenChunkIds,
    inputs |-> [c \in Range(GenChunkIds) |-> <<PathNames[1]>>],
    deps |-> d] :
     d \in {f \in [Range(GenChunkIds) -> SUBSET Range(GenChunkIds)] :
              \A c \in Range(GenChunkIds) : c \notin f[c]}}

DagInit ==
  /\ modules \in GenDagModules
  /\ dependencies = [paths |-> <<PathNames[1]>>,
                     imports |-> [p \in {PathNames[1]} |-> <<>>]]
  /\ splitPc = "start"
  /\ dag = NoDag
  /\ sortedChunkIds = <<>>
  /\ chunkToTransitiveDepPathSet = NoMap
  /\ chunkToInputPathSet = NoMap
  /\ entryIdToChunkCache = [id \in EntryIds |-> NoAddress]
  /\ chunkCaches = [a \in 1..MaxRequests |-> EmptyMap]
  /\ requests = <<>>
  /\ event = [type |-> "none"]
  /\ createdOptions = <<>>
  /\ created = <<>>
  /\ lca = NoLca
  /\ browser = NoBrowser
  /\ dependenciesCache = EmptyMap
  /\ depFileTextCache = EmptyMap
  /\ sourceVersion = 0
  /\ parsing = <<>>
  /\ called = NoCall

\* dag.getLcaNode(...ids) for a nonempty list of chunk ids, in sorted order
\* as splitDepsIntoChunks collects them (lines 350-356).
GetLcaNode(S) ==
  /\ splitPc = "sorted"
  /\ S # {}
  /\ lca' = [ids |-> Among(sortedChunkIds, S),
             node |-> getLcaNode(dag, Among(sortedChunkIds, S))]
  /\ UNCHANGED <<splitVars, serverVars, twiceVars, browserVars, gendepsVars>>

DagNext ==
  \/ SortChunks
  \/ \E S \in SUBSET Range(modules.order) : GetLcaNode(S)

DagSpec == DagInit /\ [][DagNext]_vars

\* C13: for acyclic declarations, getSortedIds returns every chunk id once
\* and each chunk after all of its declared parents, and the first id, the
\* root chunk of the server, has no parents.
C13_SortedAfterParents ==
  splitPc = "sorted" =>
    /\ Len(sortedChunkIds) = Len(modules.order)
    /\ Range(sortedChunkIds) = Range(modules.order)
    /\ \A c \in Range(modules.order) : \A p \in modules.deps[c] :
         IndexOf(sortedChunkIds, p) < IndexOf(sortedChunkIds, c)
    /\ modules.deps[rootChunkIdOf(sortedChunkIds)] = {}

\* Declarations with two roots whose first declared chunk has a parent
\* declared after it: the sorted order is not the declared order.
C13_Witness ==
  /\ splitPc = "sorted"
  /\ modules.deps[modules.order[1]] # {}
  /\ sortedChunkIds # modules.order
  /\ Cardinality({c \in Range(modules.order) : modules.deps[c] = {}}) >= 2

SingleRoot ==
  Cardinality({c \in Range(modules.order) : modules.deps[c] = {}}) = 1

\* C14: in a single-root DAG, getLcaNode of a nonempty list of chunk ids is
\* an ancestor-or-self of each id, no strict descendant of it is also an
\* ancestor-or-self of each id, and for one id it is that id.
C14_LowestCommonAncestor ==
  (lca.ids # <<>> /\ SingleRoot) =>
    /\ lca.node \in Range(modules.order)
    /\ \A i \in 1..Len(lca.ids) : IsAncestorOrSelf(lca.node, lca.ids[i])
    /\ ~ \E d \in Range(modules.order) :
           /\ IsStrictAncestor(lca.node, d)
           /\ \A i \in 1..Len(lca.ids) : IsAncestorOrSelf(d, lca.ids[i])
    /\ Len(lca.ids) = 1 => lca.node = lca.ids[1]

\* Two ids whose lowest common ancestor is neither the root nor absent from
\* the ids: one of the two is a parent of the other.
C14_Witness ==
  /\ SingleRoot
  /\ Len(lca.ids) = 2
  /\ lca.node \in Range(lca.ids)
  /\ modules.deps[lca.node] # {}

\* The number of files the first n chunk flags declare.
RECURSIVE SumOfInputs(_, _)
SumOfInputs(flags, n) ==
  IF n = 0 THEN 0 ELSE SumOfInputs(flags, n - 1) + flags[n].numOfInputs

\* C27: the chunk flags of the options are listed in topological chunk
\* order, each declares as many files as were placed in its chunk, the js
\* list is the lists of the chunks one after the other in that order with
\* no path twice, and the declared counts add up to the length of js.
C27_OptionsMatchPlacement ==
  splitPc = "options" =>
    LET made == created[1]
        flags == made.options.chunk
        js == made.options.js
    IN /\ Len(flags) = Len(sortedChunkIds)
       /\ made.sortedChunkIds = sortedChunkIds
       /\ \A i \in 1..Len(flags) :
            /\ flags[i].id = sortedChunkIds[i]
            /\ flags[i].deps = modules.deps[flags[i].id]
            /\ \A p \in flags[i].deps : \E j \in 1..(i - 1) : flags[j].id = p
            /\ flags[i].numOfInputs = Len(chunkToInputPathSet.get[flags[i].id])
            /\ SubSeq(js, SumOfInputs(flags, i - 1) + 1, SumOfInputs(flags, i))
                 = chunkToInputPathSet.get[flags[i].id]
       /\ Cardinality(Range(js)) = Len(js)
       /\ SumOfInputs(flags, Len(flags)) = Len(js)

\* Options whose chunks hold two files, one file and no file.
C27_Witness ==
  /\ splitPc = "options"
  /\ \E i, j, k \in 1..Len(created[1].options.chunk) :
       /\ created[1].options.chunk[i].numOfInputs >= 2
       /\ created[1].options.chunk[j].numOfInputs = 1
       /\ created[1].options.chunk[k].numOfInputs = 0

\* --------------------------------- TwiceSpec: the engine run more than once

\* What a run leaves of the entryConfig.modules it was given:
\* createCompilerOptionsForChunks, findTransitiveDeps and splitDepsIntoChunks
\* read it through map, forEach and index, and assign to nothing of it.
modulesAfterRun_InputsShifted(given) ==
  [order |-> given.order,
   inputs |-> [c \in DOMAIN given.inputs |-> Tail(given.inputs[c])],
   deps |-> given.deps]

modulesAfterRun(given) == given

TwiceInit ==
  /\ modules \in GenModules
  /\ dependencies \in GenDependencies
  /\ splitPc = "start"
  /\ dag = NoDag
  /\ sortedChunkIds = <<>>
  /\ chunkToTransitiveDepPathSet = NoMap
  /\ chunkToInputPathSet = NoMap
  /\ entryIdToChunkCache = [id \in EntryIds |-> NoAddress]
  /\ chunkCaches = [a \in 1..MaxRequests |-> EmptyMap]
  /\ requests = <<>>
  /\ event = [type |-> "none"]
  /\ createdOptions = <<>>
  /\ created = <<>>
  /\ lca = NoLca
  /\ browser = NoBrowser
  /\ dependenciesCache = EmptyMap
  /\ depFileTextCache = EmptyMap
  /\ sourceVersion = 0
  /\ parsing = <<>>
  /\ called = NoCall

\* compiler.ts lines 243-259, one call: dag, sortedChunkIds and the two Maps
\* are locals of the call, created anew by it.
CreateCompilerOptionsForChunks ==
  /\ Len(created) < MaxRuns
  /\ created' = Append(created, createCompilerOptionsForChunks(modules, dependencies))
  /\ modules' = modulesAfterRun(modules)
  /\ UNCHANGED <<dependencies, splitPc, dag, sortedChunkIds,
                 chunkToTransitiveDepPathSet, chunkToInputPathSet>>
  /\ UNCHANGED <<serverVars, dagVars, browserVars, gendepsVars>>

TwiceNext == CreateCompilerOptionsForChunks

TwiceSpec == TwiceInit /\ [][TwiceNext]_vars

\* The file lists of the chunks, in chunk order, as a run returned them: the
\* js list cut at the numOfInputs of the chunk flags.
RECURSIVE CutLists(_, _)
CutLists(js, flags) ==
  IF flags = <<>> THEN <<>>
  ELSE <<SubSeq(js, 1, Head(flags).numOfInputs)>>
       \o CutLists(SubSeq(js, Head(flags).numOfInputs + 1, Len(js)), Tail(flags))

ListsOf(run) == [ids |-> run.sortedChunkIds, lists |-> CutLists(run.options.js, run.options.chunk)]

ChunkParams == {Absent, "a"}

ParentRequestParams(r) == {Absent} \cup {String(n) : n \in 1..r}

\* A request whose reply has been sent: the handler has returned and nothing
\* of it is left in the server.
Returned == [pc |-> "returned"]

Init ==
  /\ entryIdToChunkCache = [id \in EntryIds |-> NoAddress]
  /\ chunkCaches = [a \in 1..MaxRequests |-> EmptyMap]
  /\ requests = <<>>
  /\ event = [type |-> "none"]
  /\ createdOptions =
       [id \in EntryIds |->
          createCompilerOptionsForChunks(EntryModules(id), EntryDependencies(id))]
  /\ created = <<>>
  /\ lca = NoLca
  /\ browser = NoBrowser
  /\ dependenciesCache = EmptyMap
  /\ depFileTextCache = EmptyMap
  /\ sourceVersion = 0
  /\ parsing = <<>>
  /\ called = NoCall
  /\ modules = EntryModules("main")
  /\ dependencies = EntryDependencies("main")
  /\ splitPc = "idle"
  /\ dag = NoDag
  /\ sortedChunkIds = <<>>
  /\ chunkToTransitiveDepPathSet = NoMap
  /\ chunkToInputPathSet = NoMap

\* The Map of an entry id in entryIdToChunkCache; no Map when the key is
\* missing.
ChunkCacheOf(id) ==
  IF entryIdToChunkCache[id] = NoAddress THEN EmptyMap
  ELSE chunkCaches[entryIdToChunkCache[id]]

\* Maps that neither entryIdToChunkCache nor a running handler refers to are
\* garbage: nothing can read them again.
Collect(cache, caches, reqs) ==
  [a \in DOMAIN caches |->
     IF \/ \E id \in DOMAIN cache : cache[id] = a
        \/ \E o \in 1..Len(reqs) : reqs[o].pc = "compileToJson" /\ reqs[o].chunkCache = a
     THEN caches[a] ELSE EmptyMap]

\* serve.ts lines 190-193: the address of the entry's Map, a new Map when
\* the entry has none. A new Map takes the id of the request creating it as
\* its address.
chunkCacheAddress(cache, id, r) ==
  IF cache[id] = NoAddress THEN r ELSE cache[id]

\* serve.ts lines 190-192: the Maps after the entry's Map was looked up.
chunkCachesAfterGet_Reset(caches, cache, id, address) ==
  [caches EXCEPT ![address] = EmptyMap]

chunkCachesAfterGet(caches, cache, id, address) ==
  IF cache[id] = NoAddress THEN [caches EXCEPT ![address] = EmptyMap] ELSE caches

\* serve.ts lines 194-200: what the lookup of {chunk, parentRequest} in the
\* entry's Map finds.
lookup_Stale(chunkCache, requestedChunkId, parentRequest) ==
  IF requestedChunkId # Absent /\ parentRequest # Absent
  THEN IF MapHas(chunkCache, parentRequest)
          /\ MapHas(chunkCache[parentRequest], requestedChunkId)
       THEN "cached" ELSE "throw"
  ELSE "compile"

lookup_Recompile(chunkCache, requestedChunkId, parentRequest) ==
  IF requestedChunkId # Absent /\ parentRequest # Absent /\ MapHas(chunkCache, parentRequest)
     /\ MapHas(chunkCache[parentRequest], requestedChunkId)
  THEN "cached" ELSE "compile"

lookup(chunkCache, requestedChunkId, parentRequest) ==
  IF requestedChunkId # Absent /\ parentRequest # Absent /\ MapHas(chunkCache, parentRequest)
  THEN IF ~MapHas(chunkCache[parentRequest], requestedChunkId) THEN "throw" ELSE "cached"
  ELSE "compile"

\* serve.ts line 199: the reply from a stored session.
cachedSrc_Root(parentChunkCache, requestedChunkId, rootChunkId) ==
  parentChunkCache[rootChunkId].src

cachedSrc(parentChunkCache, requestedChunkId, rootChunkId) ==
  parentChunkCache[requestedChunkId].src

\* The query of a URL as URLSearchParams: a list of (key, value) pairs.
\* request.raw.url of a /compile request carries id and, when given, chunk
\* and parentRequest.
searchParams(id, chunk, parentRequest) ==
  <<[key |-> "id", value |-> id]>>
  \o (IF chunk = Absent THEN <<>> ELSE <<[key |-> "chunk", value |-> chunk]>>)
  \o (IF parentRequest = Absent THEN <<>>
      ELSE <<[key |-> "parentRequest", value |-> parentRequest]>>)

\* URLSearchParams.append: a further pair, whatever the list holds.
paramsSet_Append(params, k, v) == Append(params, [key |-> k, value |-> v])

\* URLSearchParams.set: the first pair of the key takes the value and the
\* other pairs of the key are removed; a new key is appended.
paramsSet(params, k, v) ==
  IF \E i \in 1..Len(params) : params[i].key = k
  THEN LET first == Min({i \in 1..Len(params) : params[i].key = k})
           Other(p) == p.key # k
       IN SubSeq(params, 1, first - 1) \o <<[key |-> k, value |-> v]>>
          \o SelectSeq(SubSeq(params, first + 1, Len(params)), Other)
  ELSE Append(params, [key |-> k, value |-> v])

\* URLSearchParams.get: the value of the first pair of the key.
paramsGet(params, k) ==
  IF \E i \in 1..Len(params) : params[i].key = k
  THEN params[Min({i \in 1..Len(params) : params[i].key = k})].value
  ELSE Absent

\* serve.ts lines 202-209: the URL of a chunk of the session being compiled.
createModuleUris(url, requestId, chunkId) ==
  <<paramsSet(paramsSet(url, "chunk", chunkId), "parentRequest", requestId)>>

\* compiler.ts lines 363-376, as called by createChunkWrapper (line 275) with
\* the createModuleUris of the request: the manifest written into the
\* wrapper of the root chunk.
convertModuleInfos(given, url, requestId) ==
  [moduleInfo |-> [c \in Range(given.order) |-> given.deps[c]],
   moduleUris |-> [c \in Range(given.order) |-> createModuleUris(url, requestId, c)]]

NoManifest == [moduleInfo |-> <<>>, moduleUris |-> <<>>]

\* serve.ts lines 211-217: a rejected createCompilerOptionsForChunks ends the
\* handler before compileToJson is called.
thrown_OnlyAssertion(made) == made.error = "AssertionError"

thrown_OnlyCycle(made) == made.error = "CycleError"

thrown(made) == made.error # ""

\* serve.ts lines 119-140 and 189-217: GET /compile?id&chunk&parentRequest
\* for a compiled entry with modules, from its arrival to the start of the
\* compiler. The awaits on the way (loadEntryConfigById, getDependencies)
\* touch neither the chunk cache nor another request, so the steps between
\* them are taken at once. A stored session answers the request; every other
\* request builds the compiler options and starts the compiler. The entry
\* config and the parsed dependencies of an entry do not change while the
\* server runs, so the options every request builds for it are the ones in
\* createdOptions. What a handler keeps across the await of the compiler is
\* its entry id, its requested chunk, its request id and its Map:
\* query.parentRequest is read no more after the lookup.
replyChunksCompile(id, chunk, parentRequest) ==
  /\ Len(requests) < MaxRequests
  /\ LET r == Len(requests) + 1
         address == chunkCacheAddress(entryIdToChunkCache, id, r)
         chunkCache == IF entryIdToChunkCache[id] = NoAddress THEN EmptyMap
                       ELSE chunkCaches[entryIdToChunkCache[id]]
         found == lookup(chunkCache, chunk, parentRequest)
         made == createdOptions[id]
         arrived == [id |-> id, chunk |-> chunk, parentRequest |-> parentRequest,
                     requestId |-> String(r),
                     pc |-> "compileToJson",
                     chunkCache |-> address,
                     cached |-> FALSE,
                     compilerRuns |-> 0,
                     error |-> "",
                     body |-> <<>>]
         req == IF found = "throw"
                THEN [arrived EXCEPT !.pc = "failed",
                                     !.error = "Error: Unexpected requested chunk"]
                ELSE IF found = "cached"
                THEN [arrived EXCEPT !.pc = "replied",
                                     !.cached = TRUE,
                                     !.body = cachedSrc(chunkCache[parentRequest], chunk,
                                                        EntryModules(id).order[1])]
                ELSE IF thrown(made)
                THEN [arrived EXCEPT !.pc = "failed", !.error = made.error]
                ELSE [arrived EXCEPT !.compilerRuns = @ + 1]
         running == Append(requests,
                           IF req.pc = "compileToJson"
                           THEN [pc |-> req.pc, id |-> id, chunk |-> chunk,
                                 requestId |-> req.requestId,
                                 chunkCache |-> address,
                                 compilerRuns |-> req.compilerRuns]
                           ELSE Returned)
     IN /\ parentRequest \in ParentRequestParams(r)
        /\ entryIdToChunkCache' = [entryIdToChunkCache EXCEPT ![id] = address]
        /\ requests' = running
        /\ chunkCaches' =
             Collect(entryIdToChunkCache',
                     chunkCachesAfterGet(chunkCaches, entryIdToChunkCache, id, address),
                     running)
        /\ event' = [type |-> "request", req |-> req,
                     chunk_wrapper |->
                       IF found = "compile" /\ ~thrown(made)
                       THEN convertModuleInfos(EntryModules(id),
                                               searchParams(id, chunk, parentRequest),
                                               String(r))
                       ELSE NoManifest]
  /\ UNCHANGED <<createdOptions, splitVars, twiceVars, dagVars>>

\* Lines 218-221: the outputs by chunk id.
chunkIdToOutput_RootOnly(sortedIds, chunkOutputs) ==
  [id \in {sortedIds[1]} |-> chunkOutputs[1]]

chunkIdToOutput_FirstOutput(sortedIds, chunkOutputs) ==
  [id \in Range(sortedIds) |-> chunkOutputs[1]]

chunkIdToOutput(sortedIds, chunkOutputs) ==
  [id \in Range(sortedIds) |-> chunkOutputs[IndexOf(sortedIds, id)]]

\* Line 222: chunkCache.set(requestId, chunkIdToOutput) on the Map the
\* request took from entryIdToChunkCache before its awaits.
StoreSession_ReplaceMap(caches, address, requestId, session) ==
  [caches EXCEPT ![address] = MapSet(EmptyMap, requestId, session)]

StoreSession_SameKey(caches, address, requestId, session) ==
  [caches EXCEPT ![address] = MapSet(@, String(1), session)]

StoreSession(caches, address, requestId, session) ==
  [caches EXCEPT ![address] = MapSet(@, requestId, session)]

\* Line 226: the chunk whose output is sent.
sentChunkId_Root(requestedChunkId, rootChunkId) == rootChunkId

sentChunkId(requestedChunkId, rootChunkId) ==
  IF requestedChunkId # Absent THEN requestedChunkId ELSE rootChunkId

\* serve.ts lines 217-226: the compiler run of the request ends; a resolved
\* run is stored as the session of the request and the requested chunk, or
\* the root chunk, is sent.
CompilerExit(r, run) ==
  /\ requests[r].pc = "compileToJson"
  /\ LET req == requests[r]
         made == createdOptions[req.id]
         chunkOutputs == compileToJson(run)
         session == chunkIdToOutput(made.sortedChunkIds, chunkOutputs.outputs)
         sent == sentChunkId(req.chunk, made.rootChunkId)
         done == [id |-> req.id, chunk |-> req.chunk, requestId |-> req.requestId,
                  chunkCache |-> req.chunkCache, cached |-> FALSE,
                  compilerRuns |-> req.compilerRuns,
                  pc |-> IF chunkOutputs.error = "" /\ MapHas(session, sent)
                         THEN "replied" ELSE "failed",
                  error |-> IF chunkOutputs.error # "" THEN chunkOutputs.error
                            ELSE IF MapHas(session, sent) THEN "" ELSE "TypeError",
                  body |-> IF chunkOutputs.error = "" /\ MapHas(session, sent)
                           THEN session[sent].src ELSE <<>>]
     IN /\ requests' = [requests EXCEPT ![r] = Returned]
        /\ chunkCaches' =
             Collect(entryIdToChunkCache,
                     IF chunkOutputs.error # "" THEN chunkCaches
                     ELSE StoreSession(chunkCaches, req.chunkCache, req.requestId, session),
                     requests)
        /\ event' = [type |-> "exit", req |-> done,
                     run |-> [exitCode |-> run.exitCode, stderr |-> run.stderr]]
  /\ UNCHANGED <<entryIdToChunkCache, createdOptions, splitVars, twiceVars, dagVars>>

\* Line 291: entryIdToChunkCache.clear() leaves no key.
mapClear_OnlyMain(cache) ==
  [id \in DOMAIN cache |-> IF id = "main" THEN NoAddress ELSE cache[id]]

mapClear(cache) == [id \in DOMAIN cache |-> NoAddress]

\* serve.ts lines 289-292
clearEntryIdToChunkCache ==
  /\ entryIdToChunkCache' = mapClear(entryIdToChunkCache)
  /\ chunkCaches' = Collect(entryIdToChunkCache', chunkCaches, requests)
  /\ event' = [type |-> "clear"]
  /\ UNCHANGED <<requests, createdOptions, splitVars, twiceVars, dagVars>>

Next ==
  \/ \E id \in DOMAIN entryIdToChunkCache, chunk \in ChunkParams, n \in 0..MaxRequests :
       replyChunksCompile(id, chunk, IF n = 0 THEN Absent ELSE String(n))
       /\ UNCHANGED <<browserVars, gendepsVars>>
  \/ \E r \in {o \in 1..Len(requests) : requests[o].pc = "compileToJson"} :
       \E run \in CompilerRuns(createdOptions[requests[r].id].options, r) :
         CompilerExit(r, run) /\ UNCHANGED <<browserVars, gendepsVars>>
  \/ clearEntryIdToChunkCache /\ UNCHANGED <<browserVars, gendepsVars>>

Spec == Init /\ [][Next]_vars

\* -------------- LoaderSpec: no request names a session that is not stored

\* The requests of browsers whose module loader is up to date: a request
\* carries a parentRequest only when the session of that parentRequest is
\* stored for the entry, so every request that is compiled carries none.
LoaderRequest(id, chunk, parentRequest) ==
  /\ \/ parentRequest = Absent
     \/ lookup(ChunkCacheOf(id), chunk, parentRequest) # "compile"
  /\ replyChunksCompile(id, chunk, parentRequest)

LoaderNext ==
  \/ \E id \in DOMAIN entryIdToChunkCache, chunk \in ChunkParams, n \in 0..MaxRequests :
       LoaderRequest(id, chunk, IF n = 0 THEN Absent ELSE String(n))
       /\ UNCHANGED <<browserVars, gendepsVars>>
  \/ \E r \in {o \in 1..Len(requests) : requests[o].pc = "compileToJson"} :
       \E run \in CompilerRuns(createdOptions[requests[r].id].options, r) :
         CompilerExit(r, run) /\ UNCHANGED <<browserVars, gendepsVars>>
  \/ clearEntryIdToChunkCache /\ UNCHANGED <<browserVars, gendepsVars>>

LoaderSpec == Init /\ [][LoaderNext]_vars

\* ------------------------------- RawSpec: a directory with a RAW entry

\* serve.ts lines 147-151: the URL of an input file under inputsUrlPath.
inputsToUrisForRaw(inputs) == [i \in 1..Len(inputs) |-> [uri |-> inputs[i]]]

\* The URIs of the root chunk with the chunks taken as declared.
rawModuleUris_Declared(given) ==
  LET sortedIds == getSortedIds(createDag(given))
      rootId == sortedIds[1]
  IN [c \in Range(given.order) |->
        IF c = rootId
        THEN flat([i \in 1..Len(given.order) |->
                     inputsToUrisForRaw(given.inputs[given.order[i]])])
        ELSE <<>>]

\* serve.ts lines 155-166: moduleUris of the RAW reply. convertModuleInfos
\* gives every chunk the URIs of its inputs; the root chunk then takes the
\* URIs of all chunks in sorted order and the other chunks are emptied.
rawModuleUris(given) ==
  LET sortedIds == getSortedIds(createDag(given))
      rootId == sortedIds[1]
      moduleUris == [c \in Range(given.order) |-> inputsToUrisForRaw(given.inputs[c])]
  IN [c \in Range(given.order) |->
        IF c = rootId
        THEN flat([i \in 1..Len(sortedIds) |-> moduleUris[sortedIds[i]]])
        ELSE <<>>]

\* serve.ts lines 125-127 and 153-180: GET /compile for an entry in RAW mode
\* with modules. The reply is sent at once; chunk and parentRequest of the
\* query are not read.
replyChunksRaw(id) ==
  /\ Len(requests) < MaxRequests
  /\ requests' = Append(requests, Returned)
  /\ event' = [type |-> "raw", id |-> id,
               moduleInfo |-> [c \in ChunkIdsOf(id) |-> EntryModules(id).deps[c]],
               moduleUris |-> rawModuleUris(EntryModules(id))]
  /\ chunkCaches' = Collect(entryIdToChunkCache, chunkCaches, requests')
  /\ UNCHANGED <<entryIdToChunkCache, createdOptions, splitVars, twiceVars, dagVars,
                 browserVars, gendepsVars>>

EntryIdsWithRaw == {"other", "raw"}

RawInit ==
  /\ entryIdToChunkCache = [id \in EntryIdsWithRaw |-> NoAddress]
  /\ chunkCaches = [a \in 1..MaxRequests |-> EmptyMap]
  /\ requests = <<>>
  /\ event = [type |-> "none"]
  /\ createdOptions =
       [id \in EntryIdsWithRaw |->
          createCompilerOptionsForChunks(EntryModules(id), EntryDependencies(id))]
  /\ created = <<>>
  /\ lca = NoLca
  /\ browser = NoBrowser
  /\ dependenciesCache = EmptyMap
  /\ depFileTextCache = EmptyMap
  /\ sourceVersion = 0
  /\ parsing = <<>>
  /\ called = NoCall
  /\ modules = EntryModules("raw")
  /\ dependencies = EntryDependencies("raw")
  /\ splitPc = "idle"
  /\ dag = NoDag
  /\ sortedChunkIds = <<>>
  /\ chunkToTransitiveDepPathSet = NoMap
  /\ chunkToInputPathSet = NoMap

RawNext ==
  \/ \E id \in {e \in DOMAIN entryIdToChunkCache : EntryMode(e) # "RAW"},
        chunk \in ChunkParams, n \in 0..MaxRequests :
       replyChunksCompile(id, chunk, IF n = 0 THEN Absent ELSE String(n))
       /\ UNCHANGED <<browserVars, gendepsVars>>
  \/ \E id \in {e \in DOMAIN entryIdToChunkCache : EntryMode(e) = "RAW"} :
       replyChunksRaw(id)
  \/ \E r \in {o \in 1..Len(requests) : requests[o].pc = "compileToJson"} :
       \E run \in CompilerRuns(createdOptions[requests[r].id].options, r) :
         CompilerExit(r, run) /\ UNCHANGED <<browserVars, gendepsVars>>
  \/ clearEntryIdToChunkCache /\ UNCHANGED <<browserVars, gendepsVars>>

RawSpec == RawInit /\ [][RawNext]_vars

\* ------------------- BrowserSpec: one module loader followed through its requests

\* The browser loads an entry: GET /compile?id, with neither chunk nor
\* parentRequest. It reloads when it has loaded the entry before; it does so
\* after an eviction when the cache was cleared since it received its
\* manifest.
BrowserLoad(id) ==
  /\ browser.pc \in {"idle", "loaded"}
  /\ replyChunksCompile(id, Absent, Absent)
  /\ browser' = [pc |-> "loading",
                 id |-> id,
                 request |-> Len(requests) + 1,
                 afterEviction |-> browser.pc = "loaded" /\ browser.clearedSince,
                 clearedInFlight |-> FALSE,
                 clearedSince |-> FALSE]
  /\ UNCHANGED gendepsVars

\* The compiler run of a request ends. When the request is the browser's and
\* is answered, the browser has the root chunk and its manifest (lines
\* 222-226: chunkCache.set, then reply.send).
BrowserCompilerExit(r, run) ==
  /\ CompilerExit(r, run)
  /\ browser' = IF browser.pc = "loading" /\ browser.request = r
                THEN IF event'.req.pc = "replied"
                     THEN [browser EXCEPT !.pc = "loaded"]
                     ELSE NoBrowser
                ELSE browser
  /\ UNCHANGED gendepsVars

\* clearEntryIdToChunkCache, with what the browser's request has seen of it.
BrowserClear ==
  /\ clearEntryIdToChunkCache
  /\ browser' = IF browser.pc = "loading" THEN [browser EXCEPT !.clearedInFlight = TRUE]
                ELSE IF browser.pc = "loaded" THEN [browser EXCEPT !.clearedSince = TRUE]
                ELSE browser
  /\ UNCHANGED gendepsVars

\* The module loader requests a chunk URL of the manifest it received:
\* {chunk, parentRequest: the request id of its root request}.
BrowserLoadChunk(chunk) ==
  /\ browser.pc = "loaded"
  /\ replyChunksCompile(browser.id, chunk, String(browser.request))
  /\ UNCHANGED <<browserVars, gendepsVars>>

BrowserNext ==
  \/ \E id \in DOMAIN entryIdToChunkCache : BrowserLoad(id)
  \/ \E r \in {o \in 1..Len(requests) : requests[o].pc = "compileToJson"} :
       \E run \in CompilerRuns(createdOptions[requests[r].id].options, r) :
         BrowserCompilerExit(r, run)
  \/ BrowserClear
  \/ \E chunk \in (IF browser.pc = "loaded" THEN ChunkIdsOf(browser.id) ELSE {}) :
       BrowserLoadChunk(chunk)
  \/ \E id \in DOMAIN entryIdToChunkCache :
       replyChunksCompile(id, Absent, Absent) /\ UNCHANGED <<browserVars, gendepsVars>>

BrowserSpec == Init /\ [][BrowserNext]_vars

\* ------------------------------ GendepsSpec: the caches of gendeps.ts

\* At most MaxParses parse runs are started (two runs can overlap) and the sources are edited at
\* most MaxEdits times.
MaxParses == 2

MaxEdits == 1

\* The DependencyType the parser gives a file: a file that provides nothing
\* is a SCRIPT.
DependencyTypeOf(path) ==
  IF path = "x.js" THEN "CLOSURE_PROVIDE"
  ELSE IF path = "y.js" THEN "CLOSURE_MODULE"
  ELSE "SCRIPT"

\* Lines 62-89: the Dependency objects parsed from the files of the entry.
\* `parse` is the identity of the array (the number of the parse run that
\* made it), `version` the revision of the sources it was parsed from.
parseFiles(id, parse, version) ==
  LET paths == EntryDependencies(id).paths
  IN  [parse |-> parse,
       version |-> version,
       dependencies |-> [i \in 1..Len(paths) |->
                           [path |-> paths[i], type |-> DependencyTypeOf(paths[i])]]]

\* Line 37
scriptDeps(list) ==
  {i \in 1..Len(list.dependencies) : list.dependencies[i].type = "SCRIPT"}

\* Lines 38-40 and 43-45: dep.type = type for the given elements of the list.
setType(list, deps, type) ==
  [list EXCEPT !.dependencies =
     [i \in DOMAIN list.dependencies |->
        IF i \in deps THEN [list.dependencies[i] EXCEPT !.type = type]
        ELSE list.dependencies[i]]]

\* depFile.getDepFileText: one addDependency() line for every dependency that
\* is not a SCRIPT.
IsNotScript(dep) == dep.type # "SCRIPT"

getDepFileText(list) ==
  LET lines == SelectSeq(list.dependencies, IsNotScript)
  IN  [i \in 1..Len(lines) |-> <<"goog.addDependency", lines[i].path>>]

\* Lines 31-47, which run without suspension once getDependencies has
\* returned `list`, the array the cache holds: the types of the SCRIPT
\* dependencies are changed in place, depFile.getDepFileText is called and,
\* when it returns, the types are restored and the text is cached. When it
\* throws (there is no try/finally around line 41), lines 43-46 do not run.
depFileTextSteps(id, list, cache, throws) ==
  LET scripts == scriptDeps(list)
      changed == setType(list, scripts, "CLOSURE_PROVIDE")
  IN  /\ dependenciesCache' =
           MapSet(cache, id, IF throws THEN changed ELSE setType(changed, scripts, "SCRIPT"))
      /\ depFileTextCache' =
           IF throws THEN depFileTextCache
           ELSE MapSet(depFileTextCache, id, getDepFileText(changed))
      /\ called' = IF throws
                   THEN [op |-> "generateDepFileText", id |-> id, outcome |-> "thrown",
                         computed |-> TRUE]
                   ELSE [op |-> "generateDepFileText", id |-> id, outcome |-> "returned",
                         computed |-> TRUE, text |-> getDepFileText(changed)]

\* getDependencies (lines 53-92) is called, by createCompilerOptionsForChunks
\* or by another caller: a cached list is returned as it is (lines 58-60),
\* otherwise the files are parsed, which suspends the call (lines 62-84).
GetDependencies(id) ==
  /\ IF MapHas(dependenciesCache, id)
     THEN /\ called' = [op |-> "getDependencies", id |-> id, outcome |-> "returned",
                        parsed |-> FALSE, result |-> dependenciesCache[id]]
          /\ UNCHANGED parsing
     ELSE /\ Len(parsing) < MaxParses
          /\ parsing' = Append(parsing, [pc |-> "parsing", id |-> id,
                                         for |-> "getDependencies", since |-> sourceVersion])
          /\ called' = [op |-> "getDependencies", id |-> id, outcome |-> "parsing"]
  /\ UNCHANGED <<dependenciesCache, depFileTextCache, sourceVersion>>
  /\ UNCHANGED <<splitVars, serverVars, twiceVars, dagVars, browserVars>>

\* generateDepFileText (lines 21-48) is called: a cached text is returned
\* (lines 27-29); otherwise getDependencies is awaited (line 30), which
\* returns the cached list or parses.
GenerateDepFileText(id, throws) ==
  /\ IF MapHas(depFileTextCache, id)
     THEN /\ called' = [op |-> "generateDepFileText", id |-> id, outcome |-> "returned",
                        computed |-> FALSE, text |-> depFileTextCache[id]]
          /\ UNCHANGED <<dependenciesCache, depFileTextCache, parsing>>
     ELSE IF MapHas(dependenciesCache, id)
     THEN /\ depFileTextSteps(id, dependenciesCache[id], dependenciesCache, throws)
          /\ UNCHANGED parsing
     ELSE /\ Len(parsing) < MaxParses
          /\ parsing' = Append(parsing, [pc |-> "parsing", id |-> id,
                                         for |-> "generateDepFileText", since |-> sourceVersion])
          /\ called' = [op |-> "generateDepFileText", id |-> id, outcome |-> "parsing"]
          /\ UNCHANGED <<dependenciesCache, depFileTextCache>>
  /\ UNCHANGED sourceVersion
  /\ UNCHANGED <<splitVars, serverVars, twiceVars, dagVars, browserVars>>

\* The parse run n ends (lines 84-91): with a fatal error the call throws
\* and caches nothing; otherwise the list parsed from the revision `version`
\* of the sources, one the files had while the run read them, is cached
\* under the id, whatever the cache holds by then. A call of
\* generateDepFileText goes on with lines 31-47.
ParseEnd(n, hasFatalError, version, throws) ==
  /\ parsing[n].pc = "parsing"
  /\ version \in parsing[n].since..sourceVersion
  /\ parsing' = [parsing EXCEPT ![n].pc = "done"]
  /\ LET id == parsing[n].id
         deps == parseFiles(id, n, version)
     IN  IF hasFatalError
         THEN /\ called' = [op |-> parsing[n].for, id |-> id, outcome |-> "thrown",
                            computed |-> TRUE]
              /\ UNCHANGED <<dependenciesCache, depFileTextCache>>
         ELSE IF parsing[n].for = "getDependencies"
         THEN /\ dependenciesCache' = MapSet(dependenciesCache, id, deps)
              /\ called' = [op |-> "getDependencies", id |-> id, outcome |-> "returned",
                            parsed |-> TRUE, result |-> deps]
              /\ UNCHANGED depFileTextCache
         ELSE depFileTextSteps(id, deps, dependenciesCache, throws)
  /\ UNCHANGED sourceVersion
  /\ UNCHANGED <<splitVars, serverVars, twiceVars, dagVars, browserVars>>

\* A source file of the served directory is saved.
EditSource ==
  /\ sourceVersion < MaxEdits
  /\ sourceVersion' = sourceVersion + 1
  /\ called' = NoCall
  /\ UNCHANGED <<dependenciesCache, depFileTextCache, parsing>>
  /\ UNCHANGED <<splitVars, serverVars, twiceVars, dagVars, browserVars>>

\* clearEntryIdToChunkCache (serve.ts lines 289-292) clears the sessions and
\* nothing of gendeps.ts.
GendepsClear ==
  /\ clearEntryIdToChunkCache
  /\ called' = NoCall
  /\ UNCHANGED <<dependenciesCache, depFileTextCache, sourceVersion, parsing>>
  /\ UNCHANGED browserVars

GendepsNext ==
  \/ \E id \in DOMAIN entryIdToChunkCache : GetDependencies(id)
  \/ \E id \in DOMAIN entryIdToChunkCache, throws \in BOOLEAN :
       GenerateDepFileText(id, throws)
  \/ \E n \in 1..Len(parsing), hasFatalError \in BOOLEAN,
        version \in 0..MaxEdits, throws \in BOOLEAN :
       ParseEnd(n, hasFatalError, version, throws)
  \/ EditSource
  \/ GendepsClear

GendepsSpec == Init /\ [][GendepsNext]_vars

\* ------------------------------- FailSpec: a directory with broken entries

EntryIdsWithErrors == {"other", "cyclic", "missing"}

FailInit ==
  /\ entryIdToChunkCache = [id \in EntryIdsWithErrors |-> NoAddress]
  /\ chunkCaches = [a \in 1..MaxRequests |-> EmptyMap]
  /\ requests = <<>>
  /\ event = [type |-> "none"]
  /\ createdOptions =
       [id \in EntryIdsWithErrors |->
          createCompilerOptionsForChunks(EntryModules(id), EntryDependencies(id))]
  /\ created = <<>>
  /\ lca = NoLca
  /\ browser = NoBrowser
  /\ dependenciesCache = EmptyMap
  /\ depFileTextCache = EmptyMap
  /\ sourceVersion = 0
  /\ parsing = <<>>
  /\ called = NoCall
  /\ modules = EntryModules("cyclic")
  /\ dependencies = EntryDependencies("cyclic")
  /\ splitPc = "idle"
  /\ dag = NoDag
  /\ sortedChunkIds = <<>>
  /\ chunkToTransitiveDepPathSet = NoMap
  /\ chunkToInputPathSet = NoMap

FailSpec == FailInit /\ [][Next]_vars

\* ------------------------------------------------- properties of the server

\* The number of the request a request id names.
Build(requestId) == CHOOSE n \in 1..MaxRequests : String(n) = requestId

\* A session holding, for every chunk of the entry, the output the compiler
\* run of the request `requestId` wrote for the chunk.
Complete(id, session, requestId) ==
  /\ DOMAIN session = ChunkIdsOf(id)
  /\ \A c \in ChunkIdsOf(id) : session[c] = [path |-> c, src |-> <<c, Build(requestId)>>]

\* A session whose artifacts are all outputs of the compiler run of the
\* request `requestId`.
OwnRun(session, requestId) ==
  \A c \in DOMAIN session : session[c].src = <<c, Build(requestId)>>

\* The two-level cache as a client can observe it: per entry id no Map, or
\* the Map of the entry.
LiveCache ==
  [id \in EntryIds |->
     IF entryIdToChunkCache[id] = NoAddress THEN <<>>
     ELSE <<chunkCaches[entryIdToChunkCache[id]]>>]

InFlight == {o \in 1..Len(requests) : requests[o].pc = "compileToJson"}

\* The last step was the arrival of a request / the end of a compiler run.
Arrived == event.type = "request"

Exited == event.type = "exit"

\* The run that just ended resolved: compileToJson returned the outputs.
Resolved == Exited /\ event.req.error \in {"", "TypeError"}

\* The request that just arrived carries {chunk, parentRequest}.
CarriesBoth == Arrived /\ event.req.chunk # Absent /\ event.req.parentRequest # Absent

\* ... and its parentRequest is no session stored for its entry id.
Stale == CarriesBoth /\ ~MapHas(ChunkCacheOf(event.req.id), event.req.parentRequest)

\* ... and its parentRequest is a session stored for its entry id.
Found == CarriesBoth /\ MapHas(ChunkCacheOf(event.req.id), event.req.parentRequest)

C2_CachedArtifact ==
  (Found /\ MapHas(ChunkCacheOf(event.req.id)[event.req.parentRequest], event.req.chunk)) =>
    /\ event.req.pc = "replied" /\ event.req.cached
    /\ event.req.body =
         ChunkCacheOf(event.req.id)[event.req.parentRequest][event.req.chunk].src
    /\ event.req.body = <<event.req.chunk, Build(event.req.parentRequest)>>
    /\ event.req.compilerRuns = 0
    /\ Len(requests) \notin InFlight

C2_Witness ==
  /\ Found /\ event.req.chunk = "a" /\ event.req.cached
  /\ event.req.body = <<"a", Build(event.req.parentRequest)>>

C4_SessionsComplete ==
  \A id \in EntryIds : \A k \in DOMAIN ChunkCacheOf(id) :
    Complete(id, ChunkCacheOf(id)[k], k)

\* A session is stored while another request of the entry is compiling.
C4_Witness ==
  \E id \in EntryIds :
    /\ DOMAIN ChunkCacheOf(id) # {}
    /\ \E o \in InFlight : requests[o].id = id

\* What a step leaves of the sessions stored before it: every key that stays
\* in the Map of its entry id keeps its artifacts.
KeptSessionsUnchanged ==
  \A id \in EntryIds : \A k \in DOMAIN ChunkCacheOf(id) :
    MapHas(ChunkCacheOf(id)', k) => ChunkCacheOf(id)'[k] = ChunkCacheOf(id)[k]

C7_ReadNeverMutates ==
  [][(event'.type = "request" /\ event'.req.chunk # Absent
        /\ event'.req.parentRequest # Absent)
       => LiveCache' = LiveCache]_vars

\* C7 as the code has it: a request {chunk, parentRequest} whose lookup finds
\* the session (it is answered from the session, or fails for an unknown chunk)
\* leaves the cache as it was.
C7_FoundNeverMutates ==
  [][(event'.type = "request" /\ event'.req.chunk # Absent
        /\ event'.req.parentRequest # Absent
        /\ event'.req.pc \in {"replied", "failed"})
       => LiveCache' = LiveCache]_vars

\* A request was answered from a session of a cache that holds sessions.
C7_Witness ==
  /\ CarriesBoth /\ event.req.cached
  /\ DOMAIN ChunkCacheOf(event.req.id) # {}

\* The requests of an entry: no compiler is running for it and its Map holds
\* no session.
NothingCompiled(id) ==
  /\ \A o \in 1..Len(requests) :
       requests[o].pc = "compileToJson" => requests[o].id # id
  /\ ChunkCacheOf(id) = EmptyMap

\* C15: chunks whose declared deps form a cycle make the build of the DAG
\* fail with CycleError before a transitive set is computed (the unparsed
\* input of the same entry is not reported), before a file is placed and
\* before the compiler is invoked: every request of the entry fails with
\* CycleError, runs no compiler and leaves no session.
C15_CycleError ==
  /\ createDag(EntryModules("cyclic")).error = "CycleError"
  /\ createdOptions["cyclic"].error = "CycleError"
  /\ createdOptions["cyclic"].options = NoOptions
  /\ NothingCompiled("cyclic")
  /\ (event.type = "request" /\ event.req.id = "cyclic") =>
        /\ event.req.pc = "failed"
        /\ event.req.error = "CycleError"
        /\ event.req.compilerRuns = 0

\* A request of the cyclic entry has failed while a session of another
\* entry is stored.
C15_Witness ==
  /\ event.type = "request"
  /\ event.req.id = "cyclic"
  /\ event.req.error = "CycleError"
  /\ ChunkCacheOf("other") # EmptyMap

\* C16: a chunk input that is no file of the dependency graph makes the
\* splitting step fail with the error of the missing entry point; the
\* request runs no compiler and no session is stored.
C16_MissingEntryPoint ==
  /\ createdOptions["missing"].error = "AssertionError"
  /\ createdOptions["missing"].options = NoOptions
  /\ NothingCompiled("missing")
  /\ (event.type = "request" /\ event.req.id = "missing") =>
        /\ event.req.pc = "failed"
        /\ event.req.error = "AssertionError"
        /\ event.req.compilerRuns = 0

\* A request of the entry with the missing input has failed, its Map has
\* been created and is empty.
C16_Witness ==
  /\ event.type = "request"
  /\ event.req.id = "missing"
  /\ event.req.error = "AssertionError"
  /\ entryIdToChunkCache["missing"] # NoAddress
  /\ ChunkCacheOf("missing") = EmptyMap

\* The compiler runs of the entries and what compile() makes of them.
AllCompilerRuns ==
  UNION {CompilerRuns(createdOptions[id].options, 1) : id \in DOMAIN createdOptions}

\* C17: a compiler run fails with CompilerError carrying the exit code of
\* the run whenever the run exits with a nonzero code or reports
\* diagnostics, and succeeds only when the exit code is zero and nothing was
\* reported; a failed run stores no session and is not retried.
C17_CompilerError ==
  /\ \A run \in AllCompilerRuns :
       compile(run).error = "CompilerError" => compile(run).exitCode = run.exitCode
  /\ event.type = "exit" =>
       /\ (event.run.exitCode # 0 \/ event.run.stderr # "")
            <=> event.req.error = "CompilerError"
       /\ event.req.error = "CompilerError" =>
            /\ event.req.pc = "failed"
            /\ event.req.compilerRuns = 1
            /\ ~MapHas(chunkCaches[event.req.chunkCache], event.req.requestId)
            /\ requests[Build(event.req.requestId)] = Returned

\* The run of a request has exited with a nonzero code and an empty stderr,
\* and the request did not fail with CompilerError.
C17_Witness ==
  /\ event.type = "exit"
  /\ event.run.exitCode # 0
  /\ event.run.stderr = ""
  /\ event.req.error # "CompilerError"

\* The manifest lists every chunk of the entry, with its declared parents
\* and with one URL whose chunk parameter is the chunk and whose
\* parentRequest parameter is the request id; the URL has each of the two
\* parameters once.
ManifestOf(manifest, id, requestId) ==
  /\ DOMAIN manifest.moduleInfo = ChunkIdsOf(id)
  /\ DOMAIN manifest.moduleUris = ChunkIdsOf(id)
  /\ \A c \in ChunkIdsOf(id) :
       /\ manifest.moduleInfo[c] = EntryModules(id).deps[c]
       /\ Len(manifest.moduleUris[c]) = 1
       /\ LET params == manifest.moduleUris[c][1] IN
          /\ paramsGet(params, "chunk") = c
          /\ paramsGet(params, "parentRequest") = requestId
          /\ \A k \in {"chunk", "parentRequest"} :
               Cardinality({i \in 1..Len(params) : params[i].key = k}) = 1

\* C18: the manifest compiled for a request lists every chunk of the entry
\* with its declared parents and with one URL whose chunk parameter is the
\* chunk and whose parentRequest parameter is the request id of the request,
\* whatever chunk and parentRequest the URL of the request carried; it is
\* the request id the running handler will store the session under.
C18_Manifest ==
  (event.type = "request" /\ event.req.pc = "compileToJson") =>
    /\ ManifestOf(event.chunk_wrapper, event.req.id, event.req.requestId)
    /\ requests[Len(requests)].requestId = event.req.requestId

\* A request whose URL carries a chunk and the parentRequest of another
\* request finds no session and is compiled.
C18_Witness ==
  /\ event.type = "request"
  /\ event.req.pc = "compileToJson"
  /\ event.req.chunk # Absent
  /\ event.req.parentRequest \notin {Absent, event.req.requestId}

\* The artifact the compiler run of the request wrote for a chunk.
ArtifactOf(chunk, requestId) == <<chunk, Build(requestId)>>

\* C19 as stated: every compile request without parentRequest is answered
\* with the artifact of the root chunk, whatever else its query carries.
C19_RootArtifact ==
  (event.type = "exit" /\ event.req.pc = "replied") =>
    event.req.body = ArtifactOf(createdOptions[event.req.id].sortedChunkIds[1],
                                event.req.requestId)

\* C19, amended: a compile request without parentRequest is always compiled;
\* when its compiler run resolves it is answered with the artifact that run
\* wrote for the root chunk when the request names no chunk, for the named
\* chunk when the entry has it, and it fails when the entry has no such
\* chunk.
C19_RequestedOrRootArtifact ==
  /\ (event.type = "request" /\ event.req.parentRequest = Absent) =>
       /\ event.req.pc = "compileToJson"
       /\ requests[Len(requests)].chunk = event.req.chunk
  /\ (event.type = "exit" /\ event.req.error \in {"", "TypeError"}) =>
       LET root == createdOptions[event.req.id].sortedChunkIds[1] IN
       IF event.req.chunk = Absent
       THEN event.req.pc = "replied"
            /\ event.req.body = ArtifactOf(root, event.req.requestId)
            /\ createdOptions[event.req.id].rootChunkId = root
            /\ EntryModules(event.req.id).deps[root] = {}
       ELSE IF event.req.chunk \in ChunkIdsOf(event.req.id)
       THEN event.req.pc = "replied"
            /\ event.req.body = ArtifactOf(event.req.chunk, event.req.requestId)
       ELSE event.req.pc = "failed" /\ event.req.error = "TypeError"

\* A request without parentRequest that names the chunk a has been answered
\* with the artifact of a.
C19_Witness ==
  /\ event.type = "exit"
  /\ event.req.pc = "replied"
  /\ event.req.chunk = "a"
  /\ event.req.body = ArtifactOf("a", event.req.requestId)

\* A request {chunk, parentRequest} of the entry finds the session.
Retrievable(id, k) ==
  \A c \in ChunkIdsOf(id) : lookup(ChunkCacheOf(id), c, k) = "cached"

\* C20: a stored session is retrievable and stays so, with the same
\* artifacts, through every step but clearEntryIdToChunkCache; right after
\* clearEntryIdToChunkCache no entry id has a Map, so that no parentRequest of
\* any entry is found.
C20_EvictionAllOrNothing ==
  /\ [](\A id \in EntryIds : \A k \in DOMAIN ChunkCacheOf(id) : Retrievable(id, k))
  /\ [][event'.type # "clear" =>
          \A id \in EntryIds : \A k \in DOMAIN ChunkCacheOf(id) :
            /\ MapHas(ChunkCacheOf(id)', k)
            /\ ChunkCacheOf(id)'[k] = ChunkCacheOf(id)[k]]_vars
  /\ [](event.type = "clear" =>
          \A id \in EntryIds :
            /\ entryIdToChunkCache[id] = NoAddress
            /\ \A n \in 1..MaxRequests : \A c \in ChunkIdsOf(id) :
                 lookup(ChunkCacheOf(id), c, String(n)) # "cached")

\* The cache has just been cleared: the Map a running handler took from it
\* before holds a session, and no request finds that session any more.
C20_Witness ==
  /\ event.type = "clear"
  /\ \E o \in InFlight : \E k \in DOMAIN chunkCaches[requests[o].chunkCache] :
       /\ Complete(requests[o].id, chunkCaches[requests[o].chunkCache][k], k)
       /\ ~MapHas(ChunkCacheOf(requests[o].id), k)

\* The request that just arrived is the browser's request for a chunk URL of
\* the manifest it holds, and the cache was not cleared since the browser
\* received the manifest.
FromManifest ==
  /\ event.type = "request"
  /\ browser.pc = "loaded"
  /\ event.req.id = browser.id
  /\ event.req.chunk # Absent
  /\ event.req.parentRequest = String(browser.request)
  /\ ~browser.clearedSince

\* C21 as stated: after its session was evicted, a browser that loads the
\* entry again and is answered has a new session, and its following request
\* {chunk, parentRequest: the new request id} is served from the cache
\* without another compile.
C21_Recoverable ==
  (FromManifest /\ browser.afterEviction) =>
    /\ event.req.cached
    /\ event.req.compilerRuns = 0
    /\ event.req.body = ArtifactOf(event.req.chunk, event.req.parentRequest)

\* The reload after an eviction was answered, and the request for a chunk of
\* its manifest is not served from the cache: the compiler runs again.
C21_Witness ==
  /\ FromManifest
  /\ browser.afterEviction
  /\ browser.request > 1
  /\ ~event.req.cached
  /\ event.req.compilerRuns = 1

\* C25 as stated: the session is stored before the reply is sent, so that
\* when the browser has received a root chunk with its manifest and the cache
\* was not cleared since, each chunk URL of the manifest is answered from the
\* cache.
C25_StoredBeforeReply ==
  /\ (event.type = "exit" /\ event.req.pc = "replied") =>
       MapHas(chunkCaches[event.req.chunkCache], event.req.requestId)
  /\ FromManifest =>
       /\ event.req.cached
       /\ event.req.pc = "replied"

\* The browser holds a manifest, the cache was not cleared since, and its
\* request for a chunk URL of the manifest starts the compiler.
C25_Witness ==
  /\ FromManifest
  /\ event.req.pc = "compileToJson"
  /\ Len(requests) \in InFlight

\* C26 as stated: when clearEntryIdToChunkCache ran while the compile of a
\* root request was in flight, the session of the request is in the Map of
\* its entry id when the compile has resolved, and with no clear after the
\* reply a request {chunk, parentRequest: its request id} finds the session.
C26_StoredDespiteClear ==
  /\ (event.type = "exit" /\ event.req.pc = "replied"
        /\ browser.pc = "loaded" /\ String(browser.request) = event.req.requestId
        /\ browser.clearedInFlight) =>
       MapHas(ChunkCacheOf(event.req.id), event.req.requestId)
  /\ (FromManifest /\ browser.clearedInFlight) =>
       MapHas(ChunkCacheOf(event.req.id), event.req.parentRequest)

\* The root request of the browser has been answered after a clear during
\* its compile, and its session is in no Map a request can reach.
C26_Witness ==
  /\ event.type = "exit"
  /\ event.req.pc = "replied"
  /\ browser.pc = "loaded"
  /\ String(browser.request) = event.req.requestId
  /\ browser.clearedInFlight
  /\ \A id \in EntryIds : ~MapHas(ChunkCacheOf(id), event.req.requestId)

\* The request that just arrived carries {chunk, parentRequest}, its
\* parentRequest is a session stored for its entry id, and the session has no
\* chunk of that id.
UnknownChunk ==
  /\ Found
  /\ event.req.chunk \notin DOMAIN ChunkCacheOf(event.req.id)[event.req.parentRequest]

\* C24: a request {chunk, parentRequest} whose parentRequest is a stored
\* session of the entry and whose chunk is no chunk of the session fails with
\* an error; the compiler is not started for it and the cache is as it was.
C24_UnknownChunkFails ==
  /\ [](UnknownChunk =>
          /\ event.req.pc = "failed"
          /\ event.req.error = "Error: Unexpected requested chunk"
          /\ ~event.req.cached
          /\ event.req.compilerRuns = 0
          /\ requests[Len(requests)] = Returned)
  /\ [][UnknownChunk' =>
          /\ entryIdToChunkCache' = entryIdToChunkCache
          /\ LiveCache' = LiveCache]_vars

\* A request for the chunk a of a stored session of `other`, which has the
\* chunks app and c, has failed.
C24_Witness ==
  /\ UnknownChunk
  /\ event.req.id = "other"
  /\ event.req.chunk = "a"
  /\ event.req.pc = "failed"

\* The positions of the URIs of a chunk's inputs in a URI list.
PositionsOf(uris, inputs) ==
  {i \in 1..Len(uris) : \E k \in 1..Len(inputs) : uris[i] = [uri |-> inputs[k]]}

\* C22: the reply for an entry in RAW mode with chunks gives the root chunk
\* the input URIs of every chunk, chunk by chunk in topological order, and
\* every other chunk no URI; the request starts no compiler and leaves the
\* compile cache as it was.
C22_RawRootLoadsAll ==
  /\ [](event.type = "raw" =>
          LET given == EntryModules(event.id)
              ids == Range(given.order)
              root == CHOOSE c \in ids : given.deps[c] = {}
              uris == event.moduleUris[root]
          IN /\ DOMAIN event.moduleUris = ids
             /\ \A c \in ids \ {root} : event.moduleUris[c] = <<>>
             /\ Len(uris) = Cardinality(UNION {PositionsOf(uris, given.inputs[c]) : c \in ids})
             /\ \A c \in ids :
                  /\ Cardinality(PositionsOf(uris, given.inputs[c])) = Len(given.inputs[c])
                  /\ \A k \in 1..Len(given.inputs[c]) :
                       uris[Min(PositionsOf(uris, given.inputs[c])) + k - 1]
                         = [uri |-> given.inputs[c][k]]
                  /\ \A p \in given.deps[c] :
                       Max(PositionsOf(uris, given.inputs[p]))
                         < Min(PositionsOf(uris, given.inputs[c]))
             /\ uris = inputsToUrisForRaw(<<"x.js", "w.js", "z.js", "y.js">>))
  /\ [][event'.type = "raw" =>
          /\ entryIdToChunkCache' = entryIdToChunkCache
          /\ \A id \in DOMAIN entryIdToChunkCache : ChunkCacheOf(id)' = ChunkCacheOf(id)
          /\ InFlight' = InFlight
          /\ requests'[Len(requests')] = Returned]_vars

\* A RAW reply was sent while sessions are stored and a compile is running.
C22_Witness ==
  /\ event.type = "raw"
  /\ InFlight # {}
  /\ DOMAIN ChunkCacheOf("other") # {}
  /\ Len(event.moduleUris["app"]) = 4

\* ------------------------------------------------ GendepsSpec: the claims

\* The same array of Dependency objects, parsed from the same sources.
SameList(a, b) == a.parse = b.parse /\ a.version = b.version

\* C23: the parsed dependency list of an entry is cached indefinitely by
\* entry id. Once getDependencies has cached a list for an id, no step
\* replaces it (not an edit of the sources, not clearEntryIdToChunkCache,
\* not another call), and every getDependencies call made for the id from
\* then on returns that list without parsing.
C23_CachedIndefinitely ==
  [][\A id \in DOMAIN dependenciesCache :
       /\ MapHas(dependenciesCache', id)
       /\ SameList(dependenciesCache'[id], dependenciesCache[id])
       /\ (called'.op = "getDependencies" /\ called'.id = id /\ parsing' = parsing
             /\ called' # called)
          => /\ called'.outcome = "returned"
             /\ ~called'.parsed
             /\ SameList(called'.result, dependenciesCache[id])]_vars

\* A getDependencies call made after the sources were edited and the
\* sessions were evicted has returned the list parsed before.
C23_Witness ==
  /\ event.type = "clear"
  /\ called.op = "getDependencies"
  /\ called.outcome = "returned"
  /\ ~called.parsed
  /\ called.result.version < sourceVersion

\* C28: generateDepFileText leaves the cached dependency list unchanged.
\* Whenever a call returns or fails, every dependency of every cached list
\* has the type it had before the call (a list parsed by the call has the
\* types the parser gave), and a call made for an id whose text is cached
\* returns that text without recomputing.
C28_ListUnchanged ==
  [][(called'.op = "generateDepFileText" /\ called'.outcome \in {"returned", "thrown"}
        /\ called' # called)
     => /\ \A id \in DOMAIN dependenciesCache' :
             dependenciesCache'[id].dependencies =
               IF MapHas(dependenciesCache, id)
               THEN dependenciesCache[id].dependencies
               ELSE parseFiles(id, 0, 0).dependencies
        /\ (MapHas(depFileTextCache, called'.id) /\ parsing' = parsing)
           => /\ called'.outcome = "returned"
              /\ ~called'.computed
              /\ called'.text = depFileTextCache[called'.id]
              /\ depFileTextCache' = depFileTextCache]_vars

\* A generateDepFileText call has failed after it changed the types: the
\* cached list holds a SCRIPT file as a CLOSURE_PROVIDE.
C28_Witness ==
  /\ called.op = "generateDepFileText"
  /\ called.outcome = "thrown"
  /\ MapHas(dependenciesCache, called.id)
  /\ \E i \in DOMAIN dependenciesCache[called.id].dependencies :
       LET dep == dependenciesCache[called.id].dependencies[i]
       IN  DependencyTypeOf(dep.path) = "SCRIPT" /\ dep.type = "CLOSURE_PROVIDE"

====
